---- MODULE Spec2Model ----
(***************************************************************************)
(* Model of the two lint-fixing scripts fix-eslint-errors.py and           *)
(* fix-unused-params.py.                                                   *)
(*                                                                         *)
(* Text is a sequence of symbols.  A symbol is one lexeme of the text: a   *)
(* run of word characters (keyword, identifier, digit, underscore), one    *)
(* white-space character, or one punctuation character.  The regular       *)
(* expressions of the scripts are translated symbol by symbol: \w is a     *)
(* word symbol, \s a white-space symbol, "." any symbol but the newline.   *)
(* Files end their lines with "\n" (the platform newline, so that Python's *)
(* text mode reads and writes them without translation).                   *)
(***************************************************************************)
EXTENDS Integers, Sequences, FiniteSets, TLC

VARIABLES
    disk,          \* the file system: path -> content (a symbol sequence)
    pc,            \* position in the running script
    errors,        \* main: the list returned by the first get_eslint_errors()
    files_to_fix,  \* fix_*: the grouping dict, in insertion order
    file_path,     \* fix_unused_vars: the file of the current loop iteration
    file_errors,   \* fix_unused_vars: that file's diagnostics, sorted
    done_errors,   \* fix_unused_vars: how many of file_errors the inner loop has done
    lines,         \* fix_unused_vars: the buffer f.readlines() returned
    orig,          \* history: the file system when the script started
    opened,        \* history: the paths open() was called on
    written,       \* history: the paths open(.., 'w') was called on
    report,        \* main: the eslint reports, <<first>> or <<first, second>>
    printed,       \* main: the numbers printed, by label
    passes,        \* history: how many passes have completed
    snapshot,      \* history: the file system at the end of the first pass
    survivors,     \* history: per path, the lines of the rewritten file that the
                   \*          first pass had flagged and left in place
    stdin,         \* fix-unused-params: the input lines not yet read
    fixes_applied, \* fix-unused-params: the counter of main()
    changed,       \* history: how many input lines changed a file
    runs,          \* history: per path, how often fix_require_imports rewrote it
    consumed       \* history: the input lines read so far

vars == <<disk, pc, errors, files_to_fix, file_path, file_errors, done_errors,
          lines, orig, opened, written, report, printed, passes, snapshot,
          survivors, stdin, fixes_applied, changed, runs, consumed>>

-----------------------------------------------------------------------------
(* Bounds of the model. *)

MaxLines == 2
MaxErrors == 2
MaxRecheck == 1
MaxRuns == 2
MaxMsgs == 1
MaxInput == 2

-----------------------------------------------------------------------------
(* Character classes. *)

NL == "\n"
Space == {" ", NL}
Digit == {"0", "1", "2", "3"}
Word == Digit \cup {"const", "let", "var", "import", "from", "require", "await",
                    "a", "b", "m", "foo", "bar", "unused", "string", "number", "_"}
Quote == {"'", "\""}

IsDot(c) == c # NL
IsSpace(c) == c \in Space
IsWord(c) == c \in Word
IsNotBrace(c) == c # "}"
IsNotQuote(c) == c \notin Quote

RuleUnused == "@typescript-eslint/no-unused-vars"
RuleRequire == "@typescript-eslint/no-require-imports"

-----------------------------------------------------------------------------
(* re.match of an anchored pattern, as the set of positions the match can  *)
(* have reached (position p: the next symbol to read is s[p]).             *)

\* X* for X in {\s, \w, ".", [^}]}: any number of symbols of the class
StarSpace(s, P) ==
    {q \in 1..(Len(s) + 1) : \E p \in P : p <= q /\ \A i \in p..(q - 1) : IsSpace(s[i])}
StarDot(s, P) ==
    {q \in 1..(Len(s) + 1) : \E p \in P : p <= q /\ \A i \in p..(q - 1) : IsDot(s[i])}
StarNotBrace(s, P) ==
    {q \in 1..(Len(s) + 1) : \E p \in P : p <= q /\ \A i \in p..(q - 1) : IsNotBrace(s[i])}
\* X+
PlusSpace(s, P) ==
    {q \in 1..(Len(s) + 1) : \E p \in P : p < q /\ \A i \in p..(q - 1) : IsSpace(s[i])}
PlusWord(s, P) ==
    {q \in 1..(Len(s) + 1) : \E p \in P : p < q /\ \A i \in p..(q - 1) : IsWord(s[i])}
\* a literal symbol
Lit(s, P, c) == {p + 1 : p \in {p \in P : p <= Len(s) /\ s[p] = c}}
\* "$" without re.MULTILINE: the end, or just before a newline that ends the string
AtEnd(s, P) ==
    \E p \in P : p = Len(s) + 1 \/ (p = Len(s) /\ s[p] = NL)

\* ^\s*KW\s+\w+\s*=.*?;\s*$
MatchDecl(s, kw) ==
    LET p1 == Lit(s, StarSpace(s, {1}), kw)
        p2 == PlusWord(s, PlusSpace(s, p1))
        p3 == Lit(s, StarSpace(s, p2), "=")
        p4 == Lit(s, StarDot(s, p3), ";")
    IN  AtEnd(s, StarSpace(s, p4))

\* ^\s*import\s*\{[^}]*\}\s*from.*?;\s*$
MatchImportNamed(s) ==
    LET p1 == Lit(s, StarSpace(s, {1}), "import")
        p2 == Lit(s, StarSpace(s, p1), "{")
        p3 == Lit(s, StarNotBrace(s, p2), "}")
        p4 == Lit(s, StarSpace(s, p3), "from")
        p5 == Lit(s, StarDot(s, p4), ";")
    IN  AtEnd(s, StarSpace(s, p5))

\* ^\s*import\s+\w+\s+from.*?;\s*$
MatchImportDefault(s) ==
    LET p1 == Lit(s, StarSpace(s, {1}), "import")
        p2 == PlusWord(s, PlusSpace(s, p1))
        p3 == Lit(s, PlusSpace(s, p2), "from")
        p4 == Lit(s, StarDot(s, p3), ";")
    IN  AtEnd(s, StarSpace(s, p4))

\* the patterns list and the loop over it: does any pattern match the line
MatchesAnyPattern(line) ==
    \/ MatchDecl(line, "const")
    \/ MatchDecl(line, "let")
    \/ MatchDecl(line, "var")
    \/ MatchImportNamed(line)
    \/ MatchImportDefault(line)

-----------------------------------------------------------------------------
(* File input and output. *)

RECURSIVE SplitFrom(_, _, _)
SplitFrom(s, start, i) ==
    IF i > Len(s)
    THEN IF start > Len(s) THEN <<>> ELSE <<SubSeq(s, start, Len(s))>>
    ELSE IF s[i] = NL
         THEN <<SubSeq(s, start, i)>> \o SplitFrom(s, i + 1, i + 1)
         ELSE SplitFrom(s, start, i + 1)

\* f.readlines(): the lines, each with its newline; the last may have none
ReadLines(content) == SplitFrom(content, 1, 1)

RECURSIVE WriteLines(_)
\* f.writelines(lines): the entries one after the other, nothing between them
WriteLines(ls) ==
    IF ls = <<>> THEN <<>> ELSE Head(ls) \o WriteLines(Tail(ls))

-----------------------------------------------------------------------------
(* Diagnostics: records [file, line, rule].  Filtering, grouping, sorting. *)

\* [e for e in errors if e['rule'] == rule]
FilterRule(es, rule) == SelectSeq(es, LAMBDA e : e.rule = rule)

RECURSIVE GroupFrom(_, _)
\* the files_to_fix dict built by the grouping loop: one entry per path, in the
\* order the paths first occur, each with its diagnostics in their order
GroupFrom(es, seen) ==
    IF es = <<>> THEN <<>>
    ELSE IF Head(es).file \in seen
         THEN GroupFrom(Tail(es), seen)
         ELSE <<[file |-> Head(es).file,
                 errs |-> SelectSeq(es, LAMBDA e : e.file = Head(es).file)]>>
              \o GroupFrom(Tail(es), seen \cup {Head(es).file})

\* variant: the dict entry is set anew by every diagnostic instead of appended to
GroupLastOnly(es) ==
    LET all == GroupFrom(es, {})
    IN  [k \in 1..Len(all) |->
            [file |-> all[k].file, errs |-> <<all[k].errs[Len(all[k].errs)]>>]]

GroupByFile(es) == GroupFrom(es, {})

RECURSIVE InsertDesc(_, _)
\* e put into a list sorted by line descending, behind the entries of its own line
InsertDesc(sorted, e) ==
    IF sorted = <<>> THEN <<e>>
    ELSE IF Head(sorted).line >= e.line
         THEN <<Head(sorted)>> \o InsertDesc(Tail(sorted), e)
         ELSE <<e>> \o sorted

RECURSIVE SortDescFrom(_, _)
SortDescFrom(es, acc) ==
    IF es = <<>> THEN acc ELSE SortDescFrom(Tail(es), InsertDesc(acc, Head(es)))

\* variant: the list is left in the order of the report
SortNotDone(es) == es

\* file_errors.sort(key=lambda x: x['line'], reverse=True): stable
SortByLineDesc(es) == SortDescFrom(es, <<>>)

\* lines[line_idx] of a Python list: the 1-based position read, or 0 for IndexError
PyIndex(ls, line_idx) ==
    IF line_idx >= 0 /\ line_idx < Len(ls) THEN line_idx + 1
    ELSE IF line_idx < 0 /\ line_idx >= -Len(ls) THEN Len(ls) + line_idx + 1
    ELSE 0

\* variant: the entry is made a blank line
BlankLineKeepsNewline(ls, at) == [ls EXCEPT ![at] = <<NL>>]

\* lines[line_idx] = '': the entry is emptied, the list keeps its length
BlankLine(ls, at) == [ls EXCEPT ![at] = <<>>]

\* history: the lines of path f that the diagnostics of the rule in es name
FlaggedLines(es, f) ==
    {es[i].line : i \in {i \in 1..Len(es) : es[i].file = f /\ es[i].rule = RuleUnused}}

-----------------------------------------------------------------------------
(* fix_unused_vars(errors) *)

\* lines 29-36: filter the diagnostics of the rule and group them by file
VarsBegin ==
    /\ pc = "call_vars"
    /\ files_to_fix' = GroupByFile(FilterRule(errors, RuleUnused))
    /\ pc' = "vars_loop"
    /\ UNCHANGED <<disk, errors, file_path, file_errors, done_errors, lines, orig,
                   opened, written, report, printed, passes, snapshot, survivors,
                   stdin, fixes_applied, changed, runs, consumed>>

\* lines 38-45: the next file of the dict: read its lines, sort its diagnostics
VarsOpen ==
    /\ pc = "vars_loop"
    /\ files_to_fix # <<>>
    /\ file_path' = Head(files_to_fix).file
    /\ lines' = ReadLines(disk[Head(files_to_fix).file])
    /\ file_errors' = SortByLineDesc(Head(files_to_fix).errs)
    /\ done_errors' = 0
    /\ files_to_fix' = Tail(files_to_fix)
    /\ opened' = opened \cup {Head(files_to_fix).file}
    /\ pc' = "vars_inner"
    /\ UNCHANGED <<disk, errors, orig, written, report, printed, passes, snapshot,
                   survivors, stdin, fixes_applied, changed, runs, consumed>>

\* lines 47-63: one diagnostic: IndexError when its line is not in the buffer,
\* else the line is emptied when one of the patterns matches it
VarsError ==
    /\ pc = "vars_inner"
    /\ done_errors < Len(file_errors)
    /\ LET error == file_errors[done_errors + 1]
           at == PyIndex(lines, error.line - 1)
       IN  IF at = 0
           THEN /\ pc' = "aborted"
                /\ UNCHANGED <<lines, done_errors, consumed>>
           ELSE /\ lines' = IF MatchesAnyPattern(lines[at])
                            THEN BlankLine(lines, at)
                            ELSE lines
                /\ done_errors' = done_errors + 1
                /\ pc' = pc
    /\ UNCHANGED <<disk, errors, files_to_fix, file_path, file_errors, orig, opened,
                   written, report, printed, passes, snapshot, survivors, stdin,
                   fixes_applied, changed, runs, consumed>>

\* the positions in the rewritten file of the buffer entries at the lines in `at`
\* that are not empty
NewPositions(ls, at) ==
    {Cardinality({j \in 1..i : ls[j] # <<>>}) : i \in {i \in at \cap (1..Len(ls)) : ls[i] # <<>>}}

\* lines 65-66: the buffer is written over the file
VarsWrite ==
    /\ pc = "vars_inner"
    /\ done_errors = Len(file_errors)
    /\ disk' = [disk EXCEPT ![file_path] = WriteLines(lines)]
    /\ written' = written \cup {file_path}
    /\ survivors' = IF passes = 0
                    THEN [survivors EXCEPT ![file_path] =
                             NewPositions(lines, FlaggedLines(errors, file_path))]
                    ELSE survivors
    /\ pc' = "vars_loop"
    /\ UNCHANGED <<errors, files_to_fix, file_path, file_errors, done_errors, lines,
                   orig, opened, report, printed, passes, snapshot, stdin,
                   fixes_applied, changed, runs, consumed>>

\* the loop over the dict is over: fix_unused_vars returns to main
VarsReturn ==
    /\ pc = "vars_loop"
    /\ files_to_fix = <<>>
    /\ pc' = "call_req"
    /\ passes' = passes + 1
    /\ snapshot' = IF passes = 0 THEN disk ELSE snapshot
    /\ UNCHANGED <<disk, errors, files_to_fix, file_path, file_errors, done_errors,
                   lines, orig, opened, written, report, printed, survivors, stdin,
                   fixes_applied, changed, runs, consumed>>

-----------------------------------------------------------------------------
(* re.sub: the match of a pattern that starts at a position, and the scan. *)
(* Every repetition of these patterns is followed by a symbol outside its  *)
(* class, so the greedy match is the only one there is.                    *)

InClass(k, c) ==
    CASE k = "s" -> IsSpace(c)
      [] k = "w" -> IsWord(c)
      [] k = "d" -> c \in Digit
      [] k = "[^}]" -> IsNotBrace(c)
      [] k = "[^'\"]" -> IsNotQuote(c)

RECURSIVE RunEnd(_, _, _)
\* the position behind the longest run of symbols of class k that starts at i
RunEnd(s, i, k) ==
    IF i <= Len(s) /\ InClass(k, s[i]) THEN RunEnd(s, i + 1, k) ELSE i

\* the symbol at position i, or "" (no symbol) outside the text
At(s, i) == IF i >= 1 /\ i <= Len(s) THEN s[i] ELSE ""

NoMatch == [end |-> 0, repl |-> <<>>]

\* \s*=\s*require\(['"]([^'"]+)['"]\) from position j: the position behind the
\* match (0: no match) and group 2
RequireCall(s, j) ==
    LET eq == RunEnd(s, j, "s")
        rq == RunEnd(s, eq + 1, "s")
        md == rq + 3
        cl == RunEnd(s, md, "[^'\"]")
    IN  IF /\ At(s, eq) = "="
           /\ At(s, rq) = "require"
           /\ At(s, rq + 1) = "("
           /\ At(s, rq + 2) \in Quote
           /\ cl > md
           /\ At(s, cl) \in Quote
           /\ At(s, cl + 1) = ")"
        THEN [end |-> cl + 2, mod |-> SubSeq(s, md, cl - 1)]
        ELSE [end |-> 0, mod |-> <<>>]

\* line 87: const\s+(\w+)\s*=\s*require\(['"]([^'"]+)['"]\) -> import \1 from "\2"
MatchRequireDefault(s, i) ==
    LET nm == RunEnd(s, i + 1, "s")
        ne == RunEnd(s, nm, "w")
        call == RequireCall(s, ne)
    IN  IF At(s, i) = "const" /\ nm > i + 1 /\ ne > nm /\ call.end > 0
        THEN [end |-> call.end,
              repl |-> <<"import", " ">> \o SubSeq(s, nm, ne - 1)
                       \o <<" ", "from", " ", "\"">> \o call.mod \o <<"\"">>]
        ELSE NoMatch

\* line 88: const\s+\{([^}]+)\}\s*=\s*require\(['"]([^'"]+)['"]\)
\*          -> import { \1 } from "\2"
MatchRequireNamed(s, i) ==
    LET br == RunEnd(s, i + 1, "s")
        ne == RunEnd(s, br + 1, "[^}]")
        call == RequireCall(s, ne + 1)
    IN  IF /\ At(s, i) = "const" /\ br > i + 1 /\ At(s, br) = "{"
           /\ ne > br + 1 /\ At(s, ne) = "}" /\ call.end > 0
        THEN [end |-> call.end,
              repl |-> <<"import", " ", "{", " ">> \o SubSeq(s, br + 1, ne - 1)
                       \o <<" ", "}", " ", "from", " ", "\"">> \o call.mod \o <<"\"">>]
        ELSE NoMatch

\* variant: a call that already has its await is left alone
MatchUnawaitedImport(s, i) ==
    LET md == i + 3
        cl == RunEnd(s, md, "[^'\"]")
    IN  IF /\ At(s, i) = "import" /\ At(s, i + 1) = "(" /\ At(s, i + 2) \in Quote
           /\ cl > md /\ At(s, cl) \in Quote /\ At(s, cl + 1) = ")"
           /\ ~(At(s, i - 2) = "await" /\ IsSpace(At(s, i - 1)))
        THEN [end |-> cl + 2,
              repl |-> <<"await", " ", "import", "(", "\"">> \o SubSeq(s, md, cl - 1)
                       \o <<"\"", ")">>]
        ELSE NoMatch

\* line 89: import\(['"]([^'"]+)['"]\) -> await import("\1")
MatchDynamicImport(s, i) ==
    LET md == i + 3
        cl == RunEnd(s, md, "[^'\"]")
    IN  IF /\ At(s, i) = "import" /\ At(s, i + 1) = "(" /\ At(s, i + 2) \in Quote
           /\ cl > md /\ At(s, cl) \in Quote /\ At(s, cl + 1) = ")"
        THEN [end |-> cl + 2,
              repl |-> <<"await", " ", "import", "(", "\"">> \o SubSeq(s, md, cl - 1)
                       \o <<"\"", ")">>]
        ELSE NoMatch

\* the patterns list of fix_require_imports, by position in the list
MatchPattern(n, s, i) ==
    CASE n = 1 -> MatchRequireDefault(s, i)
      [] n = 2 -> MatchRequireNamed(s, i)
      [] n = 3 -> MatchDynamicImport(s, i)

RECURSIVE SubFrom(_, _, _)
\* re.sub(pattern, replacement, s) from position i on: the leftmost match is
\* replaced and the scan goes on behind it
SubFrom(n, s, i) ==
    IF i > Len(s) THEN <<>>
    ELSE LET m == MatchPattern(n, s, i)
         IN  IF m.end > 0
             THEN m.repl \o SubFrom(n, s, m.end)
             ELSE <<s[i]>> \o SubFrom(n, s, i + 1)

\* lines 92-93: the three substitutions, one after the other
ConvertRequires(content) == SubFrom(3, SubFrom(2, SubFrom(1, content, 1), 1), 1)

-----------------------------------------------------------------------------
(* fix_require_imports(errors) *)

\* lines 70-77: filter the diagnostics of the rule and group them by file
ReqBegin ==
    /\ pc = "call_req"
    /\ files_to_fix' = GroupByFile(FilterRule(errors, RuleRequire))
    /\ pc' = "req_loop"
    /\ UNCHANGED <<disk, errors, file_path, file_errors, done_errors, lines, orig,
                   opened, written, report, printed, passes, snapshot, survivors,
                   stdin, fixes_applied, changed, runs, consumed>>

\* lines 79-96: the next file of the dict: read, substitute, write
ReqFile ==
    /\ pc = "req_loop"
    /\ files_to_fix # <<>>
    /\ LET f == Head(files_to_fix).file
       IN  /\ disk' = [disk EXCEPT ![f] = ConvertRequires(disk[f])]
           /\ opened' = opened \cup {f}
           /\ written' = written \cup {f}
           /\ runs' = [runs EXCEPT ![f] = runs[f] + 1]
    /\ files_to_fix' = Tail(files_to_fix)
    /\ UNCHANGED <<pc, errors, file_path, file_errors, done_errors, lines, orig,
                   report, printed, passes, snapshot, survivors, stdin,
                   fixes_applied, changed, consumed>>

\* the loop over the dict is over: fix_require_imports returns to main
ReqReturn ==
    /\ pc = "req_loop"
    /\ files_to_fix = <<>>
    /\ pc' = "final"
    /\ UNCHANGED <<disk, errors, files_to_fix, file_path, file_errors, done_errors,
                   lines, orig, opened, written, report, printed, passes, snapshot,
                   survivors, stdin, fixes_applied, changed, runs, consumed>>

-----------------------------------------------------------------------------
(* Inputs of fix_unused_vars. *)

FileA == <<"a.ts">>
FileB == <<"b.ts">>
Files == {FileA, FileB}

DeclLine == <<"const", " ", "a", " ", "=", " ", "1", ";", NL>>
SharedLine == <<"const", " ", "a", " ", "=", " ", "1", ";", " ", "foo", "(", ")", ";", NL>>
OpenLine == <<"const", " ", "a", " ", "=", " ", "{", NL>>
CallLine == <<"foo", "(", ")", ";", NL>>
NamedImportLine == <<"import", " ", "{", " ", "a", " ", "}", " ", "from", " ", "\"", "m", "\"", ";", NL>>
DefaultImportLine == <<"import", " ", "a", " ", "from", " ", "'", "m", "'", ";", NL>>
LetLine == <<" ", "let", " ", "b", "=", "2", ";">>

\* complete lines, and a last line with no newline
LinePool == {DeclLine, SharedLine, OpenLine, CallLine, NamedImportLine, DefaultImportLine}
LastPool == {LetLine}

RECURSIVE SeqsUpTo(_, _)
\* the sequences of at most n elements of S
SeqsUpTo(S, n) ==
    IF n = 0 THEN {<<>>}
    ELSE LET shorter == SeqsUpTo(S, n - 1)
         IN  shorter \cup {Append(q, x) : q \in shorter, x \in S}

\* files of at most MaxLines lines, the last one possibly unterminated
FileContents ==
    LET full == SeqsUpTo(LinePool, MaxLines)
        cut == {Append(q, x) : q \in SeqsUpTo(LinePool, MaxLines - 1), x \in LastPool}
    IN  {WriteLines(q) : q \in full \cup cut}

FileBContent == CallLine \o DeclLine

\* the rule's diagnostics on a line of a file or one line beyond it, and one of
\* another rule
DiagnosticsOf(f, n) == [file : {f}, line : 1..(n + 1), rule : {RuleUnused}]
Diagnostics ==
    DiagnosticsOf(FileA, MaxLines) \cup DiagnosticsOf(FileB, 2)
        \cup {[file |-> FileA, line |-> 1, rule |-> RuleRequire]}

InitCommon ==
    /\ files_to_fix = <<>>
    /\ file_path = <<>>
    /\ file_errors = <<>>
    /\ done_errors = 0
    /\ lines = <<>>
    /\ orig = disk
    /\ opened = {}
    /\ written = {}
    /\ printed = <<>>
    /\ passes = 0
    /\ snapshot = disk
    /\ survivors = [f \in DOMAIN disk |-> {}]
    /\ fixes_applied = 0
    /\ changed = 0
    /\ runs = [f \in DOMAIN disk |-> 0]
    /\ consumed = <<>>

InitVars ==
    /\ disk \in {[f \in Files |-> IF f = FileA THEN c ELSE FileBContent] : c \in FileContents}
    /\ errors \in SeqsUpTo(Diagnostics, MaxErrors)
    /\ pc = "call_vars"
    /\ report = <<>>
    /\ stdin = <<>>
    /\ InitCommon

NextVars == VarsBegin \/ VarsOpen \/ VarsError \/ VarsWrite \/ VarsReturn

SpecVars == InitVars /\ [][NextVars]_vars

\* the linter runs again: on files the pass has left as they were it reports what
\* it reported, on rewritten files any diagnostics on lines they have
Recompute ==
    /\ pc = "call_req"
    /\ passes = 1
    /\ IF disk = orig
       THEN errors' = errors
       ELSE errors' \in SeqsUpTo({e \in DiagnosticsOf(FileA, MaxLines) :
                                     e.line <= Len(ReadLines(disk[e.file]))}, MaxRecheck)
    /\ pc' = "call_vars"
    /\ UNCHANGED <<disk, files_to_fix, file_path, file_errors, done_errors, lines, orig,
                   opened, written, report, printed, passes, snapshot, survivors,
                   stdin, fixes_applied, changed, runs, consumed>>

InitTwice ==
    /\ InitVars
    /\ \A i \in 1..Len(errors) : errors[i].file = FileA

NextTwice == NextVars \/ Recompute

SpecTwice == InitTwice /\ [][NextTwice]_vars

-----------------------------------------------------------------------------
(* Properties of fix_unused_vars. *)

OrigLines(f) == ReadLines(orig[f])

\* the lines of f with those of `at` that match a pattern emptied
Blanked(f, at) ==
    [i \in 1..Len(OrigLines(f)) |->
        IF i \in at /\ MatchesAnyPattern(OrigLines(f)[i]) THEN <<>> ELSE OrigLines(f)[i]]

\* C1: when the inner loop of a file is over, the buffer has as many entries as were
\* read, each flagged entry that matches a pattern is the empty string and every
\* other entry is the line read; a file written holds exactly that buffer, and a
\* file not written is as it was.
C1_FlaggedMatchesEmptied ==
    /\ (pc = "vars_inner" /\ done_errors = Len(file_errors)) =>
          /\ Len(lines) = Len(OrigLines(file_path))
          /\ \A i \in 1..Len(lines) :
                lines[i] = IF i \in FlaggedLines(errors, file_path)
                              /\ MatchesAnyPattern(OrigLines(file_path)[i])
                           THEN <<>>
                           ELSE OrigLines(file_path)[i]
    /\ \A f \in Files :
          disk[f] = IF f \in written
                    THEN WriteLines(Blanked(f, FlaggedLines(errors, f)))
                    ELSE orig[f]

C1_Witness ==
    /\ pc = "call_req"
    /\ \E f \in written :
          LET fl == FlaggedLines(errors, f)
          IN  /\ \E i \in fl : MatchesAnyPattern(OrigLines(f)[i])
              /\ \E i \in fl : ~MatchesAnyPattern(OrigLines(f)[i])
              /\ disk[f] # orig[f]
              /\ disk[f] # <<>>

Count(s, c) == Cardinality({i \in 1..Len(s) : s[i] = c})

\* one statement, complete on the line: one ";", only white space behind it, and
\* every bracket closed
IsSingleStatement(line) ==
    /\ Count(line, ";") = 1
    /\ \A i \in 1..Len(line) : line[i] = ";" => \A j \in (i + 1)..Len(line) : IsSpace(line[j])
    /\ Count(line, "{") = Count(line, "}")
    /\ Count(line, "(") = Count(line, ")")

\* C2: a line is emptied only if it is one complete single-statement declaration or
\* import: a declaration with another statement behind it on the line, or the first
\* line of a declaration that goes on, stays.
C2_OnlySingleStatementsEmptied ==
    pc = "vars_inner" =>
        \A i \in 1..Len(lines) :
            lines[i] = <<>> => IsSingleStatement(OrigLines(file_path)[i])

Sorted(es) == \A i, j \in 1..Len(es) : i < j => es[i].line >= es[j].line

\* C3 as claimed: the diagnostics of a file are taken in non-increasing line order,
\* and every diagnostic not yet taken still finds the line read from the file.
C3_PendingLinesUntouched ==
    pc = "vars_inner" =>
        /\ Sorted(file_errors)
        /\ \A j \in (done_errors + 1)..Len(file_errors) :
              LET n == file_errors[j].line
              IN  n <= Len(lines) => lines[n] = OrigLines(file_path)[n]

\* C3 amended: ... every diagnostic not yet taken, whose line no diagnostic already
\* taken names, still finds the line read from the file.
C3_PendingOtherLinesUntouched ==
    pc = "vars_inner" =>
        /\ Sorted(file_errors)
        /\ \A j \in (done_errors + 1)..Len(file_errors) :
              LET n == file_errors[j].line
              IN  (n <= Len(lines) /\ \A i \in 1..done_errors : file_errors[i].line # n)
                  => lines[n] = OrigLines(file_path)[n]

C3_Witness ==
    /\ pc = "vars_inner"
    /\ done_errors >= 1
    /\ done_errors < Len(file_errors)
    /\ lines # OrigLines(file_path)
    /\ file_errors[done_errors + 1].line < file_errors[done_errors].line
    /\ MatchesAnyPattern(lines[file_errors[done_errors + 1].line])

\* C8 as claimed: a second pass, on diagnostics computed from the rewritten files,
\* leaves every file as the first pass left it.
C8_SecondPassChangesNothing ==
    passes = 2 => disk = snapshot

\* C8 amended: a second pass whose diagnostics name only lines that the first pass
\* had flagged and left in place leaves every file as the first pass left it; an
\* emptied entry matches no pattern.
C8_SecondPassOnSurvivorsChangesNothing ==
    /\ (passes = 2 /\ \A i \in 1..Len(errors) :
                         errors[i].rule = RuleUnused => errors[i].line \in survivors[errors[i].file])
          => disk = snapshot
    /\ \A i \in 1..Len(lines) : lines[i] = <<>> => ~MatchesAnyPattern(lines[i])

C8_Witness ==
    /\ passes = 2
    /\ snapshot # orig
    /\ \E i \in 1..Len(errors) :
          /\ errors[i].rule = RuleUnused
          /\ errors[i].file \in written
          /\ snapshot[errors[i].file] # orig[errors[i].file]
    /\ \A i \in 1..Len(errors) :
          errors[i].rule = RuleUnused => errors[i].line \in survivors[errors[i].file]

\* history: the lines of f whose diagnostics the run has taken so far
AppliedLines(f) ==
    IF f \in written THEN FlaggedLines(errors, f)
    ELSE IF f = file_path THEN {file_errors[i].line : i \in 1..done_errors}
    ELSE {}

\* C9: when a diagnostic's line is beyond the buffer and the run aborts, every edit
\* made before it in the run, the same file's included, is in the files.
C9_EarlierEditsRemain ==
    pc = "aborted" =>
        \A f \in Files : disk[f] = WriteLines(Blanked(f, AppliedLines(f)))

C9_Witness ==
    /\ pc = "aborted"
    /\ \E f \in written : disk[f] # orig[f]

-----------------------------------------------------------------------------
(* fix_require_imports on its own, run again and again on the same list. *)

RequireLine == <<"const", " ", "a", " ", "=", " ", "require", "(", "\"", "m", "\"", ")", ";", NL>>
RequireNamedLine ==
    <<"const", " ", "{", " ", "a", ",", " ", "b", " ", "}", " ", "=", " ",
      "require", "(", "\"", "m", "\"", ")", ";", NL>>
RequireTightLine ==
    <<"const", " ", "{", "a", "}", " ", "=", " ", "require", "(", "'", "m", "'", ")", ";", NL>>
DynamicLine == <<"b", " ", "=", " ", "import", "(", "'", "m", "'", ")", ";", NL>>
AwaitedLine == <<"b", " ", "=", " ", "await", " ", "import", "(", "\"", "m", "\"", ")", ";", NL>>

RequirePool ==
    {RequireLine, RequireNamedLine, RequireTightLine, DynamicLine, AwaitedLine, CallLine}

RequireDiagnostics ==
    [file : {FileA}, line : 1..MaxLines, rule : {RuleRequire}]
        \cup {[file |-> FileB, line |-> 1, rule |-> RuleRequire],
              [file |-> FileA, line |-> 1, rule |-> RuleUnused]}

InitReq ==
    /\ disk \in {[f \in Files |-> IF f = FileA THEN WriteLines(q)
                                  ELSE AwaitedLine \o RequireLine] :
                    q \in SeqsUpTo(RequirePool, MaxLines)}
    /\ errors \in SeqsUpTo(RequireDiagnostics, MaxErrors)
    /\ pc = "call_req"
    /\ report = <<>>
    /\ stdin = <<>>
    /\ InitCommon

\* the same pass once more
ReqAgain ==
    /\ pc = "final"
    /\ \A f \in Files : runs[f] < MaxRuns
    /\ pc' = "call_req"
    /\ UNCHANGED <<disk, errors, files_to_fix, file_path, file_errors, done_errors,
                   lines, orig, opened, written, report, printed, passes, snapshot,
                   survivors, stdin, fixes_applied, changed, runs, consumed>>

NextReq == ReqBegin \/ ReqFile \/ ReqReturn \/ ReqAgain

SpecReq == InitReq /\ [][NextReq]_vars

\* does text s hold the text t, in one piece
Contains(s, t) ==
    \E k \in 0..(Len(s) - Len(t)) : \A j \in 1..Len(t) : s[k + j] = t[j]

\* the import statement the conversion is to make of a line
ImportFor(line) ==
    CASE line = RequireLine ->
            <<"import", " ", "a", " ", "from", " ", "\"", "m", "\"", ";", NL>>
      [] line = RequireNamedLine ->
            <<"import", " ", "{", " ", "a", ",", " ", "b", " ", "}", " ", "from", " ",
              "\"", "m", "\"", ";", NL>>
      [] line = RequireTightLine ->
            <<"import", " ", "{", " ", "a", " ", "}", " ", "from", " ", "\"", "m", "\"", ";", NL>>
      [] OTHER -> <<>>

IsCandidate(f) ==
    \E i \in 1..Len(errors) : errors[i].file = f /\ errors[i].rule = RuleRequire

\* C6: a file with a diagnostic of the rule has, after the pass, 'import NAME from
\* "MODULE"' for every 'const NAME = require("MODULE")' and 'import { NAMES } from
\* "MODULE"' for every 'const { NAMES } = require("MODULE")' it had, wherever the
\* diagnostics point; a file with no such diagnostic is neither opened nor written.
C6_RequiresBecomeImports ==
    \A f \in Files :
        IF IsCandidate(f)
        THEN runs[f] >= 1 =>
                \A i \in 1..Len(OrigLines(f)) : Contains(disk[f], ImportFor(OrigLines(f)[i]))
        ELSE f \notin opened /\ f \notin written /\ disk[f] = orig[f]

\* the dynamic import calls of a text: import( quote, module, quote )
DynamicImports(s) ==
    {i \in 1..Len(s) :
        /\ At(s, i) = "import" /\ At(s, i + 1) = "(" /\ At(s, i + 2) \in Quote
        /\ \E j \in (i + 4)..Len(s) :
              /\ s[j] \in Quote
              /\ At(s, j + 1) = ")"
              /\ \A k \in (i + 3)..(j - 1) : s[k] \notin Quote}

\* how many times "await " stands right in front of position i
AwaitsBefore(s, i) ==
    Cardinality({n \in 1..i : \A m \in 1..n :
                    At(s, i - 2 * m) = "await" /\ At(s, i - 2 * m + 1) = " "})

\* the k-th smallest element of a set of numbers
Kth(S, k) == CHOOSE p \in S : Cardinality({q \in S : q <= p}) = k

\* C10: every pass over a file puts one more "await " in front of each of its
\* dynamic import calls, already awaited or not, and nowhere else: not in front of
\* the import statements that the first two substitutions made.
C10_EachRunAddsAnAwait ==
    \A f \in Files :
        LET was == DynamicImports(orig[f])
            now == DynamicImports(disk[f])
        IN  /\ Cardinality(now) = Cardinality(was)
            /\ \A k \in 1..Cardinality(was) :
                  AwaitsBefore(disk[f], Kth(now, k))
                      = AwaitsBefore(orig[f], Kth(was, k)) + runs[f]
            /\ Count(disk[f], "await") = Count(orig[f], "await") + runs[f] * Cardinality(was)

C10_Witness ==
    \E f \in Files :
        /\ runs[f] = 2
        /\ Contains(orig[f], AwaitedLine)
        /\ \E i \in 1..Len(orig[f]) : MatchRequireDefault(orig[f], i).end > 0
        /\ Contains(disk[f], <<"await", " ", "await", " ", "await", " ", "import", "(">>)
        /\ f = FileA

-----------------------------------------------------------------------------
(* get_eslint_errors() and main() of fix-eslint-errors.py *)

\* the report of eslint --format=json: one result per file, each with messages
Messages(rules) == [severity : {1, 2}, line : 1..2, ruleId : rules]

EslintReports(rules) ==
    {<<[filePath |-> FileA, messages |-> a], [filePath |-> FileB, messages |-> b]>> :
        a \in SeqsUpTo(Messages(rules), MaxMsgs), b \in SeqsUpTo(Messages(rules), MaxMsgs)}

\* variant: the severity is not looked at
AllOfMessages(file, ms) ==
    [i \in 1..Len(ms) |-> [file |-> file, line |-> ms[i].line, rule |-> ms[i].ruleId]]

RECURSIVE ErrorsOfMessages(_, _)
\* lines 17-24: the messages of one file, those of severity 2 appended
ErrorsOfMessages(file, ms) ==
    IF ms = <<>> THEN <<>>
    ELSE (IF Head(ms).severity = 2
          THEN <<[file |-> file, line |-> Head(ms).line, rule |-> Head(ms).ruleId]>>
          ELSE <<>>) \o ErrorsOfMessages(file, Tail(ms))

RECURSIVE GetEslintErrors(_)
\* lines 14-25: the loop over the file results
GetEslintErrors(data) ==
    IF data = <<>> THEN <<>>
    ELSE ErrorsOfMessages(Head(data).filePath, Head(data).messages)
         \o GetEslintErrors(Tail(data))

\* lines 101-102: the first report, and "Found n error violations"
MainGetErrors ==
    /\ pc = "main"
    /\ \E data \in EslintReports({RuleUnused, RuleRequire}) :
          /\ report' = <<data>>
          /\ errors' = GetEslintErrors(data)
          /\ printed' = [l \in {"Found"} |-> Len(GetEslintErrors(data))]
    /\ pc' = "call_vars"
    /\ UNCHANGED <<disk, files_to_fix, file_path, file_errors, done_errors, lines, orig,
                   opened, written, passes, snapshot, survivors, stdin, fixes_applied,
                   changed, runs, consumed>>

\* lines 111-116: the second report, "Remaining errors: n", and "Reduced errors
\* by n" when it is a reduction
MainFinal ==
    /\ pc = "final"
    /\ \E data \in EslintReports({RuleUnused}) :
          LET found == Len(errors)
              remaining == Len(GetEslintErrors(data))
          IN  /\ report' = Append(report, data)
              /\ printed' = [l \in {"Found", "Remaining"}
                                     \cup (IF remaining < found THEN {"Reduced"} ELSE {}) |->
                                CASE l = "Found" -> printed["Found"]
                                  [] l = "Remaining" -> remaining
                                  [] l = "Reduced" -> found - remaining]
    /\ pc' = "done"
    /\ UNCHANGED <<disk, errors, files_to_fix, file_path, file_errors, done_errors,
                   lines, orig, opened, written, passes, snapshot, survivors, stdin,
                   fixes_applied, changed, runs, consumed>>

InitMain ==
    /\ disk \in {[f \in Files |-> IF f = FileA THEN c ELSE FileBContent] :
                    c \in {DeclLine, RequireLine \o SharedLine, AwaitedLine \o CallLine}}
    /\ errors = <<>>
    /\ pc = "main"
    /\ report = <<>>
    /\ stdin = <<>>
    /\ InitCommon

Next ==
    \/ MainGetErrors
    \/ VarsBegin \/ VarsOpen \/ VarsError \/ VarsWrite \/ VarsReturn
    \/ ReqBegin \/ ReqFile \/ ReqReturn
    \/ MainFinal

Spec == InitMain /\ [][Next]_vars

\* the messages of a report that are errors
SeverityErrors(data) ==
    Cardinality({km \in (1..Len(data)) \X (1..2 * MaxMsgs) :
                    /\ km[2] <= Len(data[km[1]].messages)
                    /\ data[km[1]].messages[km[2]].severity = 2})

\* C4: "Found" is the number of error messages of the first report, printed before
\* any file is touched; "Remaining" that of a second report, asked for when both
\* passes are over; "Reduced" is printed, as their difference, exactly when
\* Remaining is less than Found.
C4_SummaryCounts ==
    /\ report = <<>> => printed = <<>> /\ disk = orig
    /\ pc = "call_vars" => disk = orig /\ written = {}
    /\ Len(report) >= 1 => printed["Found"] = SeverityErrors(report[1])
    /\ Len(report) = 2 =>
          /\ pc = "done"
          /\ passes = 1
          /\ printed["Remaining"] = SeverityErrors(report[2])
          /\ ("Reduced" \in DOMAIN printed) <=> (printed["Remaining"] < printed["Found"])
          /\ "Reduced" \in DOMAIN printed =>
                printed["Reduced"] = printed["Found"] - printed["Remaining"]
    /\ pc = "done" => Len(report) = 2

C4_Witness ==
    /\ pc = "done"
    /\ "Reduced" \in DOMAIN printed
    /\ printed["Reduced"] = 1
    /\ disk # orig
    /\ \E k \in 1..2 : \E i \in 1..Len(report[1][k].messages) :
          report[1][k].messages[i].severity = 1

-----------------------------------------------------------------------------
(* fix-unused-params.py *)

\* the two fixed stretches of a TS6133 line, each one symbol
ErrHead == ": error TS6133: '"
ErrTail == "' is declared but its value is never read."

\* line 40, from the "(" at position p on:
\* \((\d+),(\d+)\): error TS6133: '(\w+)' is declared but its value is never read\.
DiagnosticAt(s, p) ==
    LET d1 == RunEnd(s, p + 1, "d")
        d2 == RunEnd(s, d1 + 1, "d")
        w == RunEnd(s, d2 + 2, "w")
    IN  IF /\ At(s, p) = "(" /\ d1 > p + 1 /\ At(s, d1) = ","
           /\ d2 > d1 + 1 /\ At(s, d2) = ")" /\ At(s, d2 + 1) = ErrHead
           /\ w > d2 + 2 /\ At(s, w) = ErrTail
        THEN [ok |-> TRUE, path |-> SubSeq(s, 1, p - 1), num |-> SubSeq(s, p + 1, d1 - 1),
              name |-> SubSeq(s, d2 + 2, w - 1)]
        ELSE [ok |-> FALSE, path |-> <<>>, num |-> <<>>, name |-> <<>>]

\* line 40: re.match of (.+?) and the rest: the shortest group 1 the rest can follow
MatchDiagnostic(s) ==
    LET ps == {p \in 2..Len(s) : /\ \A i \in 1..(p - 1) : IsDot(s[i])
                                 /\ DiagnosticAt(s, p).ok}
    IN  IF ps = {} THEN DiagnosticAt(s, 0)
        ELSE DiagnosticAt(s, CHOOSE p \in ps : \A q \in ps : p <= q)

DigitValue(d) == CASE d = "0" -> 0 [] d = "1" -> 1 [] d = "2" -> 2 [] d = "3" -> 3

RECURSIVE PyInt(_)
\* int(match.group(2)): the decimal number the digits write
PyInt(ds) ==
    IF ds = <<>> THEN 0 ELSE 10 * PyInt(SubSeq(ds, 1, Len(ds) - 1)) + DigitValue(ds[Len(ds)])

\* variant: no \b in front of the name
MatchParamNoBoundary(name, s, i) ==
    LET e == i + Len(name)
    IN  /\ e - 1 <= Len(s)
        /\ SubSeq(s, i, e - 1) = name
        /\ ~IsWord(At(s, e))
        /\ At(s, RunEnd(s, e, "s")) \in {":", ",", ")"}

\* line 21: \bNAME\b(?=\s*[:,)]) at position i
MatchParam(name, s, i) ==
    LET e == i + Len(name)
    IN  /\ e - 1 <= Len(s)
        /\ SubSeq(s, i, e - 1) = name
        /\ ~IsWord(At(s, i - 1))
        /\ ~IsWord(At(s, e))
        /\ At(s, RunEnd(s, e, "s")) \in {":", ",", ")"}

RECURSIVE SubParamFrom(_, _, _)
\* line 24: re.sub(pattern, '_' + NAME, line) from position i on
SubParamFrom(name, s, i) ==
    IF i > Len(s) THEN <<>>
    ELSE IF MatchParam(name, s, i)
         THEN <<"_">> \o name \o SubParamFrom(name, s, i + Len(name))
         ELSE <<s[i]>> \o SubParamFrom(name, s, i + 1)

\* variant: no check of line_idx < 0, so that line 0 is the last line of the list
FixUnusedParamNoLowerCheck(content, line_num, param_name) ==
    LET ls == ReadLines(content)
        at == IF line_num = 0 THEN Len(ls) ELSE line_num
    IN  IF at < 1 \/ at > Len(ls)
        THEN [ret |-> FALSE, content |-> content]
        ELSE LET new_line == SubParamFrom(param_name, ls[at], 1)
             IN  IF new_line # ls[at]
                 THEN [ret |-> TRUE, content |-> WriteLines([ls EXCEPT ![at] = new_line])]
                 ELSE [ret |-> FALSE, content |-> content]

\* lines 7-32: the content the file has after fix_unused_param, and what it returns
FixUnusedParam(content, line_num, param_name) ==
    LET ls == ReadLines(content)
        line_idx == line_num - 1
    IN  IF line_idx < 0 \/ line_idx >= Len(ls)
        THEN [ret |-> FALSE, content |-> content]
        ELSE LET new_line == SubParamFrom(param_name, ls[line_idx + 1], 1)
             IN  IF new_line # ls[line_idx + 1]
                 THEN [ret |-> TRUE,
                       content |-> WriteLines([ls EXCEPT ![line_idx + 1] = new_line])]
                 ELSE [ret |-> FALSE, content |-> content]

\* lines 38-51: one line of the input
ParamsLine ==
    /\ pc = "params"
    /\ stdin # <<>>
    /\ LET match == MatchDiagnostic(Head(stdin))
           file == match.path
           fix == FixUnusedParam(disk[file], PyInt(match.num), match.name)
       IN  IF match.ok /\ file \in DOMAIN disk
           THEN /\ opened' = opened \cup {file}
                /\ IF fix.ret
                   THEN /\ disk' = [disk EXCEPT ![file] = fix.content]
                        /\ written' = written \cup {file}
                        /\ fixes_applied' = fixes_applied + 1
                   ELSE UNCHANGED <<disk, written, fixes_applied>>
           ELSE UNCHANGED <<disk, opened, written, fixes_applied>>
    /\ changed' = IF disk' # disk THEN changed + 1 ELSE changed
    /\ stdin' = Tail(stdin)
    /\ consumed' = Append(consumed, Head(stdin))
    /\ UNCHANGED <<pc, errors, files_to_fix, file_path, file_errors, done_errors, lines,
                   orig, report, printed, passes, snapshot, survivors, runs>>

\* line 53: the input is at its end: "Total fixes applied: n"
ParamsEnd ==
    /\ pc = "params"
    /\ stdin = <<>>
    /\ printed' = [l \in {"Total"} |-> fixes_applied]
    /\ pc' = "done"
    /\ UNCHANGED <<disk, errors, files_to_fix, file_path, file_errors, done_errors,
                   lines, orig, opened, written, report, passes, snapshot, survivors,
                   stdin, fixes_applied, changed, runs, consumed>>

-----------------------------------------------------------------------------
(* Inputs of fix-unused-params.py. *)

Gone == <<"gone.ts">>

ParamLine ==
    <<"foo", "(", "bar", ":", " ", "string", ",", " ", "unused", ":", " ", "number", ")",
      " ", "{", "}", NL>>
BodyLine == <<" ", "bar", "(", "unused", " ", ")", ";", " ", "unused", ";", NL>>
PrefixedLine == <<"_", "unused", ",", " ", "bar", "2", ":", " ", "unused", " ", ",", NL>>

ParamPool == {ParamLine, BodyLine, PrefixedLine, CallLine}

\* a well-formed line of the type checker, at column 1
TscLine(path, num, name) ==
    path \o <<"(">> \o num \o <<",", "1", ")", ErrHead>> \o name \o <<ErrTail, NL>>

\* line numbers as they are written, and the numbers they write
Numerals ==
    {[digits |-> <<"0">>, value |-> 0], [digits |-> <<"1">>, value |-> 1],
     [digits |-> <<"0", "2">>, value |-> 2], [digits |-> <<"1", "0">>, value |-> 10]}
Names == {<<"unused">>, <<"bar">>, <<"a">>}

WellFormed ==
    {TscLine(FileA, num.digits, name) : num \in Numerals, name \in Names \ {<<"a">>}}
        \cup {TscLine(Gone, <<"1">>, <<"unused">>), TscLine(FileB, <<"0", "2">>, <<"a">>)}

Malformed ==
    {CallLine,
     FileA \o <<"(", "1", ",", "1", ")", ": error TS2304: '", "unused", "' is not defined.", NL>>,
     FileA \o <<"(", "1", ")", ErrHead, "unused", ErrTail, NL>>}

InitParams ==
    /\ disk \in {[f \in Files |-> IF f = FileA THEN WriteLines(q) ELSE FileBContent] :
                    q \in SeqsUpTo(ParamPool, MaxLines)}
    /\ stdin \in SeqsUpTo(WellFormed \cup Malformed, MaxInput)
    /\ errors = <<>>
    /\ pc = "params"
    /\ report = <<>>
    /\ InitCommon

NextParams == ParamsLine \/ ParamsEnd

SpecParams == InitParams /\ [][NextParams]_vars


\* where NAME stands as a whole word with ":", "," or ")" behind it, white space
\* allowed in between
Occurrences(name, s) ==
    {i \in 1..Len(s) :
        /\ i + Len(name) - 1 <= Len(s)
        /\ SubSeq(s, i, i + Len(name) - 1) = name
        /\ ~IsWord(At(s, i - 1))
        /\ ~IsWord(At(s, i + Len(name)))
        /\ \E j \in (i + Len(name))..Len(s) :
              /\ s[j] \in {":", ",", ")"}
              /\ \A m \in (i + Len(name))..(j - 1) : IsSpace(s[m])}

\* new is old with "_" put in front of every such NAME, and nothing else changed
Prefixed(name, old, new) ==
    LET occ == Occurrences(name, old)
    IN  /\ Len(new) = Len(old) + Cardinality(occ)
        /\ \A i \in 1..Len(old) : new[i + Cardinality({o \in occ : o <= i})] = old[i]
        /\ \A o \in occ : new[o + Cardinality({q \in occ : q < o})] = "_"

\* C5: a diagnostic on a line the file has: on that line "_" goes in front of the
\* name wherever it is a whole word before ":", "," or ")", the rest of the line
\* and every other line stay, the file keeps its number of lines; the call counts
\* as a fix exactly when the line changed, and only then is the file written.
C5_ParamPrefixed ==
    [][\A p \in DOMAIN disk, num \in Numerals, name \in Names :
          (/\ pc = "params" /\ stdin # <<>>
           /\ Head(stdin) = TscLine(p, num.digits, name)
           /\ num.value \in 1..Len(ReadLines(disk[p])))
          => LET old == ReadLines(disk[p])
                 new == ReadLines(disk'[p])
                 n == num.value
             IN  /\ Len(new) = Len(old)
                 /\ \A i \in 1..Len(old) : i # n => new[i] = old[i]
                 /\ Prefixed(name, old[n], new[n])
                 /\ \A q \in DOMAIN disk : q # p => disk'[q] = disk[q]
                 /\ (fixes_applied' = fixes_applied + 1) <=> (new[n] # old[n])
                 /\ (fixes_applied' = fixes_applied) <=> (new[n] = old[n])
                 /\ new[n] = old[n] => written' = written
                 /\ new[n] # old[n] => p \in written'
      ]_vars

C5_Witness ==
    /\ consumed = <<TscLine(FileA, <<"1">>, <<"unused">>)>>
    /\ Len(ReadLines(orig[FileA])) = 2
    /\ ReadLines(orig[FileA])[1] = ParamLine
    /\ ReadLines(disk[FileA])[1] =
          <<"foo", "(", "bar", ":", " ", "string", ",", " ", "_", "unused", ":", " ",
            "number", ")", " ", "{", "}", NL>>
    /\ fixes_applied = 1
    /\ Len(ReadLines(disk[FileA])) = 2

\* a line that is no TS6133 diagnostic, one of a file that is not there, one of a
\* line the file does not have
IsSkipped(l) ==
    \/ l \in Malformed
    \/ \E num \in Numerals, name \in Names : l = TscLine(Gone, num.digits, name)
    \/ \E p \in DOMAIN disk, num \in Numerals, name \in Names :
          /\ l = TscLine(p, num.digits, name)
          /\ num.value \notin 1..Len(ReadLines(disk[p]))

\* C7: such a line changes no file and not the counter, raises nothing, and the
\* next line is read; the total printed at the end is the number of input lines
\* that changed a file.
C7_SkipsAreSilent ==
    /\ [][(pc = "params" /\ stdin # <<>> /\ IsSkipped(Head(stdin)))
            => /\ disk' = disk
               /\ fixes_applied' = fixes_applied
               /\ pc' = "params"
               /\ stdin' = Tail(stdin)]_vars
    /\ [](pc = "done" => printed["Total"] = changed /\ stdin = <<>>)

C7_Witness ==
    /\ pc = "done"
    /\ printed["Total"] = 1
    /\ Len(consumed) = 2
    /\ disk # orig
    /\ consumed[1] \in Malformed \cup {TscLine(Gone, <<"1">>, <<"unused">>)}
    /\ consumed[2] \in WellFormed

====
